---- MODULE Spec2Model ----
(***************************************************************************)
(* salt/modules/influx.py: the InfluxDB execution module of Salt.          *)
(*                                                                         *)
(* Every public function resolves connection parameters (_client), builds  *)
(* a fresh client handle and forwards one call to the influxdb client      *)
(* library; create / remove / change-password are guarded by an existence  *)
(* check that lists the collection first.                                  *)
(*                                                                         *)
(* Python values.  An optional argument is a sequence: <<>> is None and    *)
(* <<v>> is the value v.  What a Python call evaluates to is a record      *)
(* whose only field tells its shape:                                       *)
(*   [bool |-> b]     True / False                                         *)
(*   [list |-> S]     a list of dicts, S the dicts (order plays no part    *)
(*                    in the membership tests of the module)               *)
(*   [marker |-> s]   a value that is not a list (an in-band error)        *)
(*   [raw |-> r]      a query result                                       *)
(*   [raise |-> e]    the call raised e; nothing in the module catches it  *)
(***************************************************************************)
EXTENDS Integers, Sequences, FiniteSets, TLC

VARIABLES
    opts,      \* the minion configuration read by config.option
    servers,   \* address -> the state of the InfluxDB server listening there
    last,      \* the last invocation that returned: its call, remote calls, result
    ncalls,    \* the number of invocations made so far
    cargs,     \* SpecClient: the explicit arguments handed to _client
    resolved,  \* SpecClient: <<>>, or <<the client _client built>>
    procs      \* SpecRace: the two concurrent invocations

vars == <<opts, servers, last, ncalls, cargs, resolved, procs>>

-----------------------------------------------------------------------------
(* Bounds of the model. *)

\* Invocations made in one behaviour of Spec.
MaxCalls == 2

-----------------------------------------------------------------------------
(* Python values. *)

None == <<>>

Some(v) == <<v>>

\* `not x` for an optional string: None and '' are falsy.
TruthyStr(x) == x # None /\ x[1] # ""

\* `not x` for an optional integer: None and 0 are falsy.
TruthyInt(x) == x # None /\ x[1] # 0

\* '{0}'.format(x), as the client library builds its URLs: None becomes 'None'.
PyStr(x) == IF x = None THEN "None" ELSE x[1]

PyBool(b) == [bool |-> b]

IsRaise(v) == "raise" \in DOMAIN v

\* isinstance(v, list)
IsList(v) == "list" \in DOMAIN v

-----------------------------------------------------------------------------
(* The configuration store and parameter resolution. *)

DefaultUser == "root"

DefaultPassword == "root"

DefaultHost == "localhost"

DefaultPort == 8086

\* __salt__['config.option'](key, default): the stored value when the key is
\* present (whatever the value is), the default otherwise.
ConfigOption(key, default) ==
    IF opts[key] # None THEN opts[key][1] ELSE default

\* A mutant of _client: the configuration store wins over an explicit argument.
ClientConfigFirst(user, password, host, port) ==
    [ host     |-> IF opts["influxdb.host"] # None THEN opts["influxdb.host"][1]
                   ELSE IF TruthyStr(host) THEN host[1] ELSE DefaultHost,
      port     |-> IF opts["influxdb.port"] # None THEN opts["influxdb.port"][1]
                   ELSE IF TruthyInt(port) THEN port[1] ELSE DefaultPort,
      username |-> IF opts["influxdb.user"] # None THEN opts["influxdb.user"][1]
                   ELSE IF TruthyStr(user) THEN user[1] ELSE DefaultUser,
      password |-> IF opts["influxdb.password"] # None
                   THEN opts["influxdb.password"][1]
                   ELSE IF TruthyStr(password) THEN password[1]
                   ELSE DefaultPassword ]

\* _client(user, password, host, port): the keyword arguments it hands to
\* influxdb.InfluxDBClient.
_client(user, password, host, port) ==
    [ host     |-> IF ~TruthyStr(host)
                   THEN ConfigOption("influxdb.host", DefaultHost) ELSE host[1],
      port     |-> IF ~TruthyInt(port)
                   THEN ConfigOption("influxdb.port", DefaultPort) ELSE port[1],
      username |-> IF ~TruthyStr(user)
                   THEN ConfigOption("influxdb.user", DefaultUser) ELSE user[1],
      password |-> IF ~TruthyStr(password)
                   THEN ConfigOption("influxdb.password", DefaultPassword)
                   ELSE password[1] ]

\* The connection arguments of a public function, all defaulted to None.
NoConn == [user |-> None, password |-> None, host |-> None, port |-> None]

-----------------------------------------------------------------------------
(* The influxdb client library and the servers behind it.                  *)
(*                                                                         *)
(* A server holds its databases, its cluster admins and the users of each  *)
(* database.  A client handle is [cfg, database, h]: the arguments it was  *)
(* built with, the database switch_db selected, and h, the rank of the     *)
(* handle among those the invocation built.                                *)
(*                                                                         *)
(* An invocation threads a context [srv, trace, nh, ret]: the servers, the *)
(* client calls made so far, the handles built so far, and the value of    *)
(* the last Python call.                                                   *)

DbNames == {"metrics", "logs"}

EmptyServer ==
    [dbs |-> {}, admins |-> {}, users |-> [d \in DbNames |-> {}]]

NamesOf(principals) == {u.name : u \in principals}

Listing(names) == [list |-> {[name |-> n] : n \in names}]

Raised == [raise |-> "InfluxDBClientError"]

\* add_cluster_admin / add_database_user on one collection of principals.
AddPrincipal(principals, name, passwd) ==
    IF name \in NamesOf(principals)
    THEN [res |-> Raised, set |-> principals]
    ELSE [res |-> PyBool(TRUE),
          set |-> principals \cup {[name |-> name, password |-> passwd]}]

\* update_cluster_admin_password / update_database_user_password.
UpdatePrincipal(principals, name, passwd) ==
    IF name \notin NamesOf(principals)
    THEN [res |-> Raised, set |-> principals]
    ELSE [res |-> PyBool(TRUE),
          set |-> {u \in principals : u.name # name}
                  \cup {[name |-> name, password |-> passwd]}]

\* delete_cluster_admin / delete_database_user.
DeletePrincipal(principals, name) ==
    IF name \notin NamesOf(principals)
    THEN [res |-> Raised, set |-> principals]
    ELSE [res |-> PyBool(TRUE), set |-> {u \in principals : u.name # name}]

\* What a listing call answers: the list, a value that is not a list, or
\* an exception (the library raises on an error status).
ListingAnswer(lst, names) ==
    CASE lst = "list"   -> Listing(names)
      [] lst = "marker" -> [marker |-> "error"]
      [] lst = "raise"  -> Raised

\* What the server s answers to method m of a handle, and the server after
\* it.  lst is the environment's choice of what a listing answers, qres of
\* what a query answers.
ServerCall(s, client, m, args, lst, qres) ==
    LET db == client.database[1]
    IN  CASE m = "get_database_list" ->
               [res |-> ListingAnswer(lst, s.dbs),
                s |-> s]
          [] m = "create_database" ->
               IF args[1] \in s.dbs THEN [res |-> Raised, s |-> s]
               ELSE [res |-> PyBool(TRUE),
                     s |-> [s EXCEPT !.dbs = @ \cup {args[1]}]]
          [] m = "delete_database" ->
               IF args[1] \notin s.dbs THEN [res |-> Raised, s |-> s]
               ELSE [res |-> PyBool(TRUE),
                     s |-> [s EXCEPT !.dbs = @ \ {args[1]}]]
          [] m = "get_list_cluster_admins" ->
               [res |-> ListingAnswer(lst, NamesOf(s.admins)),
                s |-> s]
          [] m = "get_database_users" ->
               [res |-> ListingAnswer(lst, NamesOf(s.users[db])),
                s |-> s]
          [] m = "add_cluster_admin" ->
               LET r == AddPrincipal(s.admins, args[1], args[2])
               IN  [res |-> r.res, s |-> [s EXCEPT !.admins = r.set]]
          [] m = "add_database_user" ->
               LET r == AddPrincipal(s.users[db], args[1], args[2])
               IN  [res |-> r.res, s |-> [s EXCEPT !.users[db] = r.set]]
          [] m = "update_cluster_admin_password" ->
               LET r == UpdatePrincipal(s.admins, args[1], args[2])
               IN  [res |-> r.res, s |-> [s EXCEPT !.admins = r.set]]
          [] m = "update_database_user_password" ->
               LET r == UpdatePrincipal(s.users[db], args[1], args[2])
               IN  [res |-> r.res, s |-> [s EXCEPT !.users[db] = r.set]]
          [] m = "delete_cluster_admin" ->
               LET r == DeletePrincipal(s.admins, args[1])
               IN  [res |-> r.res, s |-> [s EXCEPT !.admins = r.set]]
          [] m = "delete_database_user" ->
               LET r == DeletePrincipal(s.users[db], args[1])
               IN  [res |-> r.res, s |-> [s EXCEPT !.users[db] = r.set]]
          [] m = "query" ->
               [res |-> [raw |-> qres], s |-> s]

AddrOf(cfg) == <<cfg.host, cfg.port>>

\* A remote call of a handle, answered by the server at the handle's address.
Call(ctx, client, m, args, lst, qres) ==
    LET addr == AddrOf(client.cfg)
        r    == ServerCall(ctx.srv[addr], client, m, args, lst, qres)
    IN  [ srv   |-> [ctx.srv EXCEPT ![addr] = r.s],
          trace |-> Append(ctx.trace,
                           [h |-> client.h, cfg |-> client.cfg,
                            database |-> client.database,
                            m |-> m, args |-> args, res |-> r.res]),
          nh    |-> ctx.nh,
          ret   |-> r.res ]

\* client.switch_db(database): local to the handle, no round trip.
SwitchDb(ctx, client, database) ==
    [ctx EXCEPT !.trace =
        Append(@, [h |-> client.h, cfg |-> client.cfg,
                   database |-> Some(database),
                   m |-> "switch_db", args |-> <<database>>,
                   res |-> [none |-> TRUE]])]

\* The context at the start of an invocation.
Enter(srv) == [srv |-> srv, trace |-> <<>>, nh |-> 0, ret |-> [none |-> TRUE]]

\* The client handle a call of _client builds in context ctx.
NewClient(ctx, conn) ==
    [ cfg      |-> _client(conn.user, conn.password, conn.host, conn.port),
      database |-> None,
      h        |-> ctx.nh + 1 ]

Built(ctx) == [ctx EXCEPT !.nh = @ + 1]

Selected(client, database) == [client EXCEPT !.database = Some(database)]

-----------------------------------------------------------------------------
(* The functions of the module.  Each takes the context it runs in and     *)
(* yields the context it leaves, ret being what the function returns.      *)
(* lst is the environment's choice of what a listing answers.              *)

\* db_list(user, password, host, port)
db_list(ctx, conn, lst) ==
    LET client == NewClient(ctx, conn)
    IN  Call(Built(ctx), client, "get_database_list", <<>>, lst, "")

\* A mutant of db_exists: a listing that is not a list counts as "exists".
db_exists_fail_closed(ctx, name, conn, lst) ==
    LET dbs == db_list(ctx, conn, lst)
    IN  IF IsRaise(dbs.ret) THEN dbs
        ELSE IF ~IsList(dbs.ret) THEN [dbs EXCEPT !.ret = PyBool(TRUE)]
        ELSE [dbs EXCEPT
                !.ret = PyBool(name \in {db.name : db \in dbs.ret.list})]

\* db_exists(name, user, password, host, port)
db_exists(ctx, name, conn, lst) ==
    LET dbs == db_list(ctx, conn, lst)
    IN  IF IsRaise(dbs.ret) THEN dbs
        ELSE IF ~IsList(dbs.ret) THEN [dbs EXCEPT !.ret = PyBool(FALSE)]
        ELSE [dbs EXCEPT
                !.ret = PyBool(name \in {db.name : db \in dbs.ret.list})]

\* A mutant of db_create_act: a create call that raised is tried again.
db_create_act_retry(e, name, conn) ==
    IF e.ret.bool THEN [e EXCEPT !.ret = PyBool(FALSE)]
    ELSE LET client == NewClient(e, conn)
             first  == Call(Built(e), client, "create_database", <<name>>,
                            "list", "")
         IN  IF IsRaise(first.ret)
             THEN Call(first, client, "create_database", <<name>>, "list", "")
             ELSE first

\* db_create after its existence check e returned.
db_create_act(e, name, conn) ==
    IF e.ret.bool THEN [e EXCEPT !.ret = PyBool(FALSE)]
    ELSE LET client == NewClient(e, conn)
         IN  Call(Built(e), client, "create_database", <<name>>, "list", "")

\* db_create(name, user, password, host, port)
db_create(ctx, name, conn, lst) ==
    LET e == db_exists(ctx, name, NoConn, lst)
    IN  IF IsRaise(e.ret) THEN e ELSE db_create_act(e, name, conn)

\* db_remove after its existence check e returned.
db_remove_act(e, name, conn) ==
    IF ~e.ret.bool THEN [e EXCEPT !.ret = PyBool(FALSE)]
    ELSE LET client == NewClient(e, conn)
         IN  Call(Built(e), client, "delete_database", <<name>>, "list", "")

\* db_remove(name, user, password, host, port)
db_remove(ctx, name, conn, lst) ==
    LET e == db_exists(ctx, name, NoConn, lst)
    IN  IF IsRaise(e.ret) THEN e ELSE db_remove_act(e, name, conn)

\* A mutant of user_list: the database is ignored, cluster admins are listed.
user_list_admins_only(ctx, database, conn, lst) ==
    LET client == NewClient(ctx, conn)
    IN  Call(Built(ctx), client, "get_list_cluster_admins", <<>>, lst, "")

\* user_list(database, user, password, host, port)
user_list(ctx, database, conn, lst) ==
    LET client == NewClient(ctx, conn)
    IN  IF TruthyStr(database)
        THEN Call(SwitchDb(Built(ctx), client, database[1]),
                  Selected(client, database[1]),
                  "get_database_users", <<>>, lst, "")
        ELSE Call(Built(ctx), client, "get_list_cluster_admins", <<>>, lst, "")

\* user_exists(name, database, user, password, host, port)
user_exists(ctx, name, database, conn, lst) ==
    LET users == user_list(ctx, database, conn, lst)
    IN  IF IsRaise(users.ret) THEN users
        ELSE IF ~IsList(users.ret) THEN [users EXCEPT !.ret = PyBool(FALSE)]
        ELSE [users EXCEPT
                !.ret = PyBool(name \in {u.name : u \in users.ret.list})]

\* The branch on `database` that ends user_create, user_chpass and
\* user_remove: the database-user call after a switch_db, or the
\* cluster-admin call.
ScopedCall(e, database, conn, dbMethod, adminMethod, args) ==
    LET client == NewClient(e, conn)
    IN  IF TruthyStr(database)
        THEN Call(SwitchDb(Built(e), client, database[1]),
                  Selected(client, database[1]), dbMethod, args, "list", "")
        ELSE Call(Built(e), client, adminMethod, args, "list", "")

\* user_create after its existence check e returned.
user_create_act(e, name, passwd, database, conn) ==
    IF e.ret.bool THEN [e EXCEPT !.ret = PyBool(FALSE)]
    ELSE ScopedCall(e, database, conn,
                    "add_database_user", "add_cluster_admin", <<name, passwd>>)

\* user_create(name, passwd, database, user, password, host, port)
user_create(ctx, name, passwd, database, conn, lst) ==
    LET e == user_exists(ctx, name, database, NoConn, lst)
    IN  IF IsRaise(e.ret) THEN e
        ELSE user_create_act(e, name, passwd, database, conn)

\* user_chpass after its existence check e returned.
user_chpass_act(e, name, passwd, database, conn) ==
    IF ~e.ret.bool THEN [e EXCEPT !.ret = PyBool(FALSE)]
    ELSE ScopedCall(e, database, conn,
                    "update_database_user_password",
                    "update_cluster_admin_password", <<name, passwd>>)

\* user_chpass(name, passwd, database, user, password, host, port)
user_chpass(ctx, name, passwd, database, conn, lst) ==
    LET e == user_exists(ctx, name, database, NoConn, lst)
    IN  IF IsRaise(e.ret) THEN e
        ELSE user_chpass_act(e, name, passwd, database, conn)

\* user_remove after its existence check e returned: the delete calls are
\* handed `user`, the connecting user, as the library formats it in the URL.
user_remove_act(e, name, database, conn) ==
    IF ~e.ret.bool THEN [e EXCEPT !.ret = PyBool(FALSE)]
    ELSE ScopedCall(e, database, conn,
                    "delete_database_user", "delete_cluster_admin",
                    <<PyStr(conn.user)>>)

\* user_remove(name, database, user, password, host, port)
user_remove(ctx, name, database, conn, lst) ==
    LET e == user_exists(ctx, name, database, NoConn, lst)
    IN  IF IsRaise(e.ret) THEN e
        ELSE user_remove_act(e, name, database, conn)

\* The default of time_precision in the signature of query.
DefaultTimePrecision == "s"

\* The default of chunked in the signature of query.
DefaultChunked == FALSE

\* A keyword argument left out takes the default of the signature.
OrDefault(x, default) == IF x = None THEN default ELSE x[1]

\* A mutant of query: time_precision and chunked are not forwarded.
query_options_dropped(ctx, database, q, time_precision, chunked, conn, qres) ==
    LET client == NewClient(ctx, conn)
    IN  Call(SwitchDb(Built(ctx), client, database),
             Selected(client, database), "query",
             <<q, DefaultTimePrecision, DefaultChunked>>, "list", qres)

\* query(database, query, time_precision, chunked, user, password, host, port)
query(ctx, database, q, time_precision, chunked, conn, qres) ==
    LET client == NewClient(ctx, conn)
    IN  Call(SwitchDb(Built(ctx), client, database),
             Selected(client, database), "query",
             <<q, OrDefault(time_precision, DefaultTimePrecision),
               OrDefault(chunked, DefaultChunked)>>, "list", qres)

-----------------------------------------------------------------------------
(* Spec: a caller invokes the public functions one after the other.  An    *)
(* action is one whole invocation; `last` records it.                      *)

\* The servers of the model: one at the default address, one elsewhere.
Addrs == {<<DefaultHost, DefaultPort>>, <<"h2", DefaultPort>>}

Names == {"alice", "bob"}

\* The password user_create gives a new principal.
NewPasswds == {"pw1"}

\* The password user_chpass changes it to.
ChangedPasswds == {"pw2"}

\* (time_precision, chunked) as a caller of query passes them.
QueryOptions == {<<None, None>>, <<Some("m"), Some(TRUE)>>}

\* The `database` argument of the user functions: left out, empty, or a name.
DbArgs == {None, Some("")} \cup {Some(d) : d \in DbNames}

\* The connection arguments a caller passes: none; another connecting user
\* with an empty host; all four, naming the other server.
Conns ==
    { NoConn,
      [NoConn EXCEPT !.user = Some("bob"), !.host = Some("")],
      [user |-> Some("bob"), password |-> Some("secret"),
       host |-> Some("h2"), port |-> Some(DefaultPort)] }

Keys == {"influxdb.user", "influxdb.password", "influxdb.host", "influxdb.port"}

EmptyOpts == [k \in Keys |-> None]

Queries == {"SELECT * FROM cpu"}

QueryResults == {"series-a", "series-b"}

ListingAnswers == {"list", "marker", "raise"}

NoArgs ==
    [name |-> "", passwd |-> "", database |-> None, conn |-> NoConn,
     q |-> "", time_precision |-> None, chunked |-> None, lst |-> "list"]

NoCall ==
    [op |-> "none", args |-> NoArgs, trace |-> <<>>, ret |-> [none |-> TRUE]]

\* The state after invocation `op` with arguments `args` left context r.
Returned(op, args, r) ==
    /\ ncalls < MaxCalls
    /\ ncalls' = ncalls + 1
    /\ servers' = r.srv
    /\ last' = [op |-> op, args |-> args, trace |-> r.trace, ret |-> r.ret]
    /\ UNCHANGED <<opts, cargs, resolved, procs>>

DbList ==
    \E conn \in Conns, lst \in ListingAnswers :
        Returned("db_list", [NoArgs EXCEPT !.conn = conn, !.lst = lst],
                 db_list(Enter(servers), conn, lst))

DbExists ==
    \E name \in DbNames, conn \in Conns, lst \in ListingAnswers :
        Returned("db_exists",
                 [NoArgs EXCEPT !.name = name, !.conn = conn, !.lst = lst],
                 db_exists(Enter(servers), name, conn, lst))

DbCreate ==
    \E name \in DbNames, conn \in Conns, lst \in ListingAnswers :
        Returned("db_create",
                 [NoArgs EXCEPT !.name = name, !.conn = conn, !.lst = lst],
                 db_create(Enter(servers), name, conn, lst))

DbRemove ==
    \E name \in DbNames, conn \in Conns, lst \in ListingAnswers :
        Returned("db_remove",
                 [NoArgs EXCEPT !.name = name, !.conn = conn, !.lst = lst],
                 db_remove(Enter(servers), name, conn, lst))

UserList ==
    \E database \in DbArgs, conn \in Conns, lst \in ListingAnswers :
        Returned("user_list",
                 [NoArgs EXCEPT !.database = database, !.conn = conn,
                                !.lst = lst],
                 user_list(Enter(servers), database, conn, lst))

UserExists ==
    \E name \in Names, database \in DbArgs, conn \in Conns,
       lst \in ListingAnswers :
        Returned("user_exists",
                 [NoArgs EXCEPT !.name = name, !.database = database,
                                !.conn = conn, !.lst = lst],
                 user_exists(Enter(servers), name, database, conn, lst))

UserCreate ==
    \E name \in Names, passwd \in NewPasswds, database \in DbArgs,
       conn \in Conns, lst \in ListingAnswers :
        Returned("user_create",
                 [NoArgs EXCEPT !.name = name, !.passwd = passwd,
                                !.database = database, !.conn = conn,
                                !.lst = lst],
                 user_create(Enter(servers), name, passwd, database, conn, lst))

UserChpass ==
    \E name \in Names, passwd \in ChangedPasswds, database \in DbArgs,
       conn \in Conns, lst \in ListingAnswers :
        Returned("user_chpass",
                 [NoArgs EXCEPT !.name = name, !.passwd = passwd,
                                !.database = database, !.conn = conn,
                                !.lst = lst],
                 user_chpass(Enter(servers), name, passwd, database, conn, lst))

UserRemove ==
    \E name \in Names, database \in DbArgs, conn \in Conns,
       lst \in ListingAnswers :
        Returned("user_remove",
                 [NoArgs EXCEPT !.name = name, !.database = database,
                                !.conn = conn, !.lst = lst],
                 user_remove(Enter(servers), name, database, conn, lst))

Query ==
    \E database \in DbNames, q \in Queries, o \in QueryOptions,
       conn \in Conns, qres \in QueryResults :
        Returned("query",
                 [NoArgs EXCEPT !.database = Some(database), !.q = q,
                                !.time_precision = o[1], !.chunked = o[2],
                                !.conn = conn],
                 query(Enter(servers), database, q, o[1], o[2], conn, qres))

\* A server after earlier invocations: a database, two cluster admins and a
\* user of the database.
PopulatedServer ==
    [ dbs    |-> {"metrics"},
      admins |-> {[name |-> "alice", password |-> "pw1"],
                  [name |-> "bob", password |-> "pw1"]},
      users  |-> [d \in DbNames |->
                    IF d = "metrics"
                    THEN {[name |-> "alice", password |-> "pw1"]} ELSE {}] ]

\* The module keeps no state; the servers start empty, or with the default
\* one populated by earlier invocations.
Init ==
    /\ opts = EmptyOpts
    /\ servers \in
          { [a \in Addrs |-> EmptyServer],
            [a \in Addrs |->
               IF a = <<DefaultHost, DefaultPort>> THEN PopulatedServer
               ELSE EmptyServer] }
    /\ last = NoCall
    /\ ncalls = 0
    /\ cargs = NoConn
    /\ resolved = None
    /\ procs = <<>>

Next ==
    \/ DbList
    \/ DbExists
    \/ DbCreate
    \/ DbRemove
    \/ UserList
    \/ UserExists
    \/ UserCreate
    \/ UserChpass
    \/ UserRemove
    \/ Query

Spec == Init /\ [][Next]_vars

-----------------------------------------------------------------------------
(* SpecClient: parameter resolution alone.  The explicit arguments and the *)
(* configuration store are drawn in the initial state; Resolve applies     *)
(* _client to them.                                                        *)

\* An explicit argument: left out, given but empty (or 0), or given.
ClientArgs ==
    [ user     : {None, Some(""), Some("bob")},
      password : {None, Some(""), Some("secret")},
      host     : {None, Some(""), Some("h2")},
      port     : {None, Some(0), Some(9999)} ]

\* The configuration store: each key absent or present; a present value may
\* be empty too.
OptsChoices ==
    { [k \in Keys |->
         CASE k = "influxdb.user"     -> u
           [] k = "influxdb.password" -> pw
           [] k = "influxdb.host"     -> h
           [] k = "influxdb.port"     -> pt] :
      u  \in {None, Some(""), Some("cfguser")},
      pw \in {None, Some("cfgpw")},
      h  \in {None, Some("cfghost")},
      pt \in {None, Some(0), Some(9000)} }

InitClient ==
    /\ opts \in OptsChoices
    /\ cargs \in ClientArgs
    /\ resolved = None
    /\ servers = [a \in Addrs |-> EmptyServer]
    /\ last = NoCall
    /\ ncalls = 0
    /\ procs = <<>>

Resolve ==
    /\ resolved = None
    /\ resolved' =
         Some(_client(cargs.user, cargs.password, cargs.host, cargs.port))
    /\ UNCHANGED <<opts, servers, last, ncalls, cargs, procs>>

NextClient == Resolve

SpecClient == InitClient /\ [][NextClient]_vars

-----------------------------------------------------------------------------
(* SpecRace: two invocations of db_create / db_remove run concurrently.    *)
(* An invocation blocks in each round trip, so it takes two steps: its     *)
(* existence check (the listing), then the rest (the guard and the action  *)
(* call).  The steps of the two invocations interleave freely.             *)

Procs == {1, 2}

RaceOps == {"db_create", "db_remove"}

RaceName == "metrics"

RaceConns ==
    { NoConn,
      [user |-> Some("bob"), password |-> Some("secret"),
       host |-> Some("h2"), port |-> Some(DefaultPort)] }

IdleProc ==
    [pc |-> "idle", op |-> "none", conn |-> NoConn, lst |-> "list",
     alone |-> TRUE, ctx |-> Enter(<<>>)]

InitRace ==
    /\ opts = EmptyOpts
    /\ servers \in { [a \in Addrs |-> [EmptyServer EXCEPT !.dbs = d[a]]] :
                     d \in [Addrs -> SUBSET {RaceName}] }
    /\ procs = [p \in Procs |-> IdleProc]
    /\ last = NoCall
    /\ ncalls = 0
    /\ cargs = NoConn
    /\ resolved = None

\* Invocation p is called and makes its existence check.
RaceCheck(p) ==
    /\ procs[p].pc = "idle"
    /\ \E op \in RaceOps, conn \in RaceConns, lst \in ListingAnswers :
         LET e == db_exists(Enter(servers), RaceName, NoConn, lst)
         IN  procs' = [procs EXCEPT ![p] =
                 [pc    |-> IF IsRaise(e.ret) THEN "done" ELSE "checked",
                  op    |-> op, conn |-> conn, lst |-> lst,
                  alone |-> \A o \in Procs \ {p} : procs[o].pc # "checked",
                  ctx   |-> [e EXCEPT !.srv = <<>>]]]
    /\ UNCHANGED <<opts, servers, last, ncalls, cargs, resolved>>

\* Invocation p resumes after its check: the guard, the action call, return.
RaceAct(p) ==
    /\ procs[p].pc = "checked"
    /\ LET e == [procs[p].ctx EXCEPT !.srv = servers]
           r == IF procs[p].op = "db_create"
                THEN db_create_act(e, RaceName, procs[p].conn)
                ELSE db_remove_act(e, RaceName, procs[p].conn)
       IN  /\ servers' = r.srv
           /\ procs' = [procs EXCEPT ![p].pc = "done",
                                     ![p].ctx = [r EXCEPT !.srv = <<>>]]
    /\ UNCHANGED <<opts, last, ncalls, cargs, resolved>>

NextRace == \E p \in Procs : RaceCheck(p) \/ RaceAct(p)

SpecRace == InitRace /\ [][NextRace]_vars

-----------------------------------------------------------------------------
(* Vocabulary of the properties. *)

ListingMethods ==
    {"get_database_list", "get_database_users", "get_list_cluster_admins"}

CreateMethods == {"create_database", "add_database_user", "add_cluster_admin"}

DeleteMethods == {"delete_database", "delete_database_user", "delete_cluster_admin"}

UpdateMethods == {"update_database_user_password", "update_cluster_admin_password"}

MutatingMethods == CreateMethods \cup DeleteMethods \cup UpdateMethods

ActionMethods == MutatingMethods \cup {"query"}

AdminMethods ==
    {"get_list_cluster_admins", "add_cluster_admin",
     "update_cluster_admin_password", "delete_cluster_admin"}

DbUserMethods ==
    {"get_database_users", "add_database_user",
     "update_database_user_password", "delete_database_user"}

GuardedOps ==
    {"db_create", "db_remove", "user_create", "user_chpass", "user_remove"}

UserOps ==
    {"user_list", "user_exists", "user_create", "user_chpass", "user_remove"}

\* The positions of the calls of trace whose method is in M.
CallsOf(trace, M) == {i \in 1..Len(trace) : trace[i].m \in M}

\* The server the connection arguments of a call designate.
TargetOf(conn) ==
    AddrOf(_client(conn.user, conn.password, conn.host, conn.port))

\* A `database` argument that names a database, or is left out.
IsDbName(database) == database # None /\ database[1] # ""

-----------------------------------------------------------------------------
(* Parameter resolution. *)

\* What the claimed precedence yields for one field, `given` telling when an
\* explicit argument counts as given.
Precedence(given, arg, key, default) ==
    IF given THEN arg[1]
    ELSE IF opts[key] # None THEN opts[key][1] ELSE default

AllFields(c) == DOMAIN c = {"host", "port", "username", "password"}

\* C3, as claimed: each field handed to the client constructor is the
\* explicit argument whenever one is given (is not None), else the
\* configuration-store value when present, else the built-in default.
C3_ExplicitGivenWins ==
    resolved # None =>
        LET c == resolved[1]
        IN  /\ AllFields(c)
            /\ c.username = Precedence(cargs.user # None, cargs.user,
                                       "influxdb.user", "root")
            /\ c.password = Precedence(cargs.password # None, cargs.password,
                                       "influxdb.password", "root")
            /\ c.host = Precedence(cargs.host # None, cargs.host,
                                   "influxdb.host", "localhost")
            /\ c.port = Precedence(cargs.port # None, cargs.port,
                                   "influxdb.port", 8086)

\* C3, amended: each field handed to the client constructor is the explicit
\* argument when one is given and is not empty (not 0 for the port), else
\* the configuration-store value when the key is present, else the built-in
\* default; all four fields are always set.
C3_ExplicitNonEmptyWins ==
    resolved # None =>
        LET c == resolved[1]
        IN  /\ AllFields(c)
            /\ c.username =
                 Precedence(cargs.user # None /\ cargs.user # Some(""),
                            cargs.user, "influxdb.user", "root")
            /\ c.password =
                 Precedence(cargs.password # None /\ cargs.password # Some(""),
                            cargs.password, "influxdb.password", "root")
            /\ c.host =
                 Precedence(cargs.host # None /\ cargs.host # Some(""),
                            cargs.host, "influxdb.host", "localhost")
            /\ c.port =
                 Precedence(cargs.port # None /\ cargs.port # Some(0),
                            cargs.port, "influxdb.port", 8086)

\* C3, witness: one resolution that takes the user from the explicit
\* argument, the host from the configuration store, the port from the
\* default, and replaces an empty explicit password by the stored one.
C3_Witness ==
    /\ resolved # None
    /\ cargs.user = Some("bob") /\ opts["influxdb.user"] = Some("cfguser")
    /\ cargs.host = None /\ opts["influxdb.host"] = Some("cfghost")
    /\ cargs.port = None /\ opts["influxdb.port"] = None
    /\ cargs.password = Some("") /\ opts["influxdb.password"] = Some("cfgpw")
    /\ resolved[1] = [username |-> "bob", host |-> "cfghost", port |-> 8086,
                      password |-> "cfgpw"]

-----------------------------------------------------------------------------
(* Properties of one invocation (Spec). *)

\* The principals of the scope a `database` argument selects on server s.
ScopeOf(s, database) ==
    IF database = None THEN s.admins ELSE s.users[database[1]]

\* The collection a guarded function is about, on server s.
CollectionOf(s, op, database) ==
    IF op \in {"db_create", "db_remove"} THEN s.dbs
    ELSE NamesOf(ScopeOf(s, database))

\* The call names a scope: a database function, or a user function whose
\* database is left out or is a database name.
ScopeNamed(c) ==
    c.op \in UserOps => (c.args.database = None \/ IsDbName(c.args.database))

SameArgs(a, b) ==
    /\ a.name = b.name /\ a.passwd = b.passwd
    /\ a.database = b.database /\ a.conn = b.conn

\* C1, as claimed: a create that succeeded, repeated at once with the same
\* arguments (its listing answering a list), issues no remote create call,
\* returns False, and leaves the number of databases (principals of the
\* scope) on the target server as it was.
C1_CreateIdempotent ==
    [][ ( /\ last.op \in {"db_create", "user_create"}
          /\ ScopeNamed(last)
          /\ last.ret = PyBool(TRUE)
          /\ last'.op = last.op
          /\ SameArgs(last'.args, last.args)
          /\ last'.args.lst = "list" )
        => /\ CallsOf(last'.trace, CreateMethods) = {}
           /\ last'.ret = PyBool(FALSE)
           /\ LET a == TargetOf(last.args.conn)
              IN  Cardinality(CollectionOf(servers'[a], last.op,
                                           last.args.database))
                  = Cardinality(CollectionOf(servers[a], last.op,
                                             last.args.database)) ]_vars

\* C2, as claimed: db_remove, user_remove or user_chpass of a name that is
\* absent from the server its connection arguments address (its listing
\* answering a list) returns False, issues no remote mutating call and
\* leaves every server unchanged.
C2_RemoveAbsentNoOp ==
    [][ ( /\ last'.op \in {"db_remove", "user_remove", "user_chpass"}
          /\ ScopeNamed(last')
          /\ last'.args.lst = "list"
          /\ last'.args.name \notin
                CollectionOf(servers[TargetOf(last'.args.conn)], last'.op,
                             last'.args.database) )
        => /\ last'.ret = PyBool(FALSE)
           /\ CallsOf(last'.trace, MutatingMethods) = {}
           /\ servers' = servers ]_vars

\* C4: a user function called without a database issues cluster-admin
\* operations only (no switch_db, no database-user operation), the first
\* being the cluster-admin listing, so the call is routed and not refused;
\* called with database x it issues, switch_db aside, database-user
\* operations only, each on a handle whose latest earlier call of switch_db
\* was switch_db(x).
C4_ScopeDisambiguation ==
    last.op \in UserOps =>
        LET t == last.trace
            database == last.args.database
        IN  /\ database = None =>
                /\ \A i \in 1..Len(t) : t[i].m \in AdminMethods
                /\ Len(t) >= 1
                /\ t[1].m = "get_list_cluster_admins"
            /\ IsDbName(database) =>
                /\ \A i \in 1..Len(t) :
                      t[i].m \in DbUserMethods \cup {"switch_db"}
                /\ \A i \in CallsOf(t, DbUserMethods) :
                      /\ i > 1
                      /\ t[i-1].m = "switch_db"
                      /\ t[i-1].h = t[i].h
                      /\ t[i-1].args = <<database[1]>>
                /\ CallsOf(t, DbUserMethods) # {}

\* C4, witness: user_create with a database listed the users of that
\* database and added a database user, each after its own switch_db.
C4_Witness ==
    /\ last.op = "user_create"
    /\ last.args.database = Some("logs")
    /\ Len(last.trace) = 4
    /\ last.trace[2].m = "get_database_users"
    /\ last.trace[4].m = "add_database_user"
    /\ last.ret = PyBool(TRUE)

\* The listing of the invocation answered a value that is not a list.
ListingNotAList(c) ==
    /\ Len(c.trace) >= 1
    /\ \E i \in CallsOf(c.trace, ListingMethods) :
          /\ ~IsList(c.trace[i].res)
          /\ ~IsRaise(c.trace[i].res)

\* C5: when the listing answers a value that is not a list, db_exists and
\* user_exists return False; a guarded create goes on to issue its remote
\* create call; a guarded remove or change-password issues no remote call
\* besides the listing and returns False.
C5_ListingFailsOpen ==
    ListingNotAList(last) =>
        /\ last.op \in {"db_exists", "user_exists"} =>
              last.ret = PyBool(FALSE)
        /\ last.op \in {"db_create", "user_create"} =>
              /\ Cardinality(CallsOf(last.trace, CreateMethods)) = 1
              /\ last.ret = last.trace[Len(last.trace)].res
        /\ last.op \in {"db_remove", "user_remove", "user_chpass"} =>
              /\ CallsOf(last.trace, ActionMethods) = {}
              /\ last.ret = PyBool(FALSE)

\* C5, witness: db_create whose listing answered an error marker issued
\* create_database all the same.
C5_Witness ==
    /\ last.op = "db_create"
    /\ ListingNotAList(last)
    /\ Len(last.trace) = 2
    /\ last.trace[2].m = "create_database"

\* C6, as claimed: the remote delete call of user_remove has the principal
\* `name` as its target whatever the connecting user is, and the remote
\* update call of user_chpass changes the password of `name`.
C6_RemoveTargetsName ==
    /\ last.op = "user_remove" =>
          \A i \in CallsOf(last.trace, DeleteMethods) :
              last.trace[i].args = <<last.args.name>>
    /\ last.op = "user_chpass" =>
          \A i \in CallsOf(last.trace, UpdateMethods) :
              last.trace[i].args = <<last.args.name, last.args.passwd>>

\* C7: query issues exactly switch_db(database) and then one client.query
\* on the same handle, with the query text, time_precision ('s' when left
\* out) and chunked (False when left out) as given, no listing, and returns
\* the result of that call.
C7_QueryPassthrough ==
    last.op = "query" =>
        LET t == last.trace
            a == last.args
        IN  /\ Len(t) = 2
            /\ t[1].m = "switch_db"
            /\ t[1].args = <<a.database[1]>>
            /\ t[2].m = "query"
            /\ t[2].h = t[1].h
            /\ t[2].database = a.database
            /\ t[2].args =
                 << a.q,
                    IF a.time_precision = None THEN "s"
                    ELSE a.time_precision[1],
                    IF a.chunked = None THEN FALSE ELSE a.chunked[1] >>
            /\ last.ret = t[2].res

\* C7, witness: query("metrics", "SELECT * FROM cpu", "m", True) returned
\* what the server answered.
C7_Witness ==
    /\ last.op = "query"
    /\ last.args.database = Some("metrics")
    /\ last.args.time_precision = Some("m")
    /\ last.args.chunked = Some(TRUE)
    /\ last.ret = [raw |-> "series-b"]

\* C8, as claimed: in a guarded mutation the listing of the existence check
\* and the action call are both issued to the server that the explicit
\* connection arguments of the call resolve to.
C8_CheckAndActSameServer ==
    last.op \in GuardedOps =>
        \A i \in CallsOf(last.trace, ListingMethods \cup ActionMethods) :
            AddrOf(last.trace[i].cfg) = TargetOf(last.args.conn)

\* C9: an invocation issues at most one listing call and at most one action
\* call, the listing before the action, and nothing else remote; when the
\* action call is issued, the invocation returns its result.
C9_BoundedOrderedRoundTrips ==
    last.op # "none" =>
        LET t == last.trace
            L == CallsOf(t, ListingMethods)
            A == CallsOf(t, ActionMethods)
        IN  /\ Cardinality(L) <= 1
            /\ Cardinality(A) <= 1
            /\ \A i \in L, j \in A : i < j
            /\ \A i \in 1..Len(t) :
                  t[i].m \in ListingMethods \cup ActionMethods \cup {"switch_db"}
            /\ \A j \in A : last.ret = t[j].res

\* C9, witness: db_remove listed the databases, then deleted the database
\* and returned what the delete call returned.
C9_Witness ==
    /\ last.op = "db_remove"
    /\ Len(last.trace) = 2
    /\ last.trace[1].m = "get_database_list"
    /\ last.trace[2].m = "delete_database"
    /\ last.ret = PyBool(TRUE)

-----------------------------------------------------------------------------
(* Properties of two concurrent invocations (SpecRace). *)

Acted(p) == CallsOf(procs[p].ctx.trace, ActionMethods) # {}

BothReturned == \A p \in Procs : procs[p].pc = "done"

\* Both invocations are the same guarded mutation with the same arguments.
SameMutation ==
    /\ procs[1].op = procs[2].op
    /\ procs[1].conn = procs[2].conn

\* One invocation returned before the other was called.
Sequential == \A p \in Procs : procs[p].alone

\* C10, as claimed: an invocation that issued its action call returns the
\* result of that call; and when two invocations of the same guarded
\* mutation on the same name and server run one after the other (their
\* listings answering lists), at most one of them issues the action call.
C10_SequentialAtMostOneActs ==
    BothReturned =>
        /\ \A p \in Procs :
              Acted(p) =>
                  LET t == procs[p].ctx.trace
                  IN  procs[p].ctx.ret = t[Len(t)].res
        /\ ( /\ SameMutation
             /\ Sequential
             /\ \A p \in Procs : procs[p].lst = "list" )
           => ~(Acted(1) /\ Acted(2))

\* C10, the race: two db_create("metrics") with default connection
\* arguments interleaved, both listed before either acted, and both issued
\* create_database.
C10_RaceWitness ==
    /\ BothReturned
    /\ SameMutation
    /\ procs[1].op = "db_create"
    /\ procs[1].conn = NoConn
    /\ ~Sequential
    /\ \A p \in Procs : procs[p].lst = "list"
    /\ Acted(1) /\ Acted(2)

====
